---- MODULE Spec2Model ----
(***************************************************************************)
(* Model of fadin/kernels.py: the facade DiscreteKernelFiniteSupport       *)
(* (kernel_eval, grad_eval, intensity_eval) and the kernel families        *)
(* raised_cosine, truncated_gaussian and exponential with their gradients. *)
(*                                                                         *)
(* Tensors are sequences (1-based: Python index k is position k+1).        *)
(* Floating point numbers are exact fractions [n, d]; d = 0 holds the      *)
(* non-finite values (nan, +inf, -inf).  The transcendental functions      *)
(* exp, cos and sin are evaluated on a binary fixed-point grid.            *)
(***************************************************************************)
EXTENDS Integers, Sequences, FiniteSets, TLC

(***************************************************************************)
(* Bounds of the model.                                                    *)
(***************************************************************************)
\* largest denominator of a step delta = a/b, 0 < a <= b <= MaxDen
MaxDen == 3
\* largest n_grid, the length of each event sequence
MaxGrid == 2

(***************************************************************************)
(* Numbers.                                                                *)
(***************************************************************************)
Abs(x) == IF x < 0 THEN -x ELSE x

Sign(x) == IF x < 0 THEN -1 ELSE IF x > 0 THEN 1 ELSE 0

RECURSIVE GCD(_, _)
GCD(a, b) == IF b = 0 THEN a ELSE GCD(b, a % b)

\* the fraction n/d in lowest terms, d # 0
Frac(n, d) ==
    LET g == GCD(Abs(n), Abs(d))
    IN [n |-> Sign(d) * (n \div g), d |-> Abs(d) \div g]

Zero == [n |-> 0, d |-> 1]
One == [n |-> 1, d |-> 1]
NaN == [n |-> 0, d |-> 0]
Inf(s) == [n |-> s, d |-> 0]

IsNaN(a) == a.d = 0 /\ a.n = 0
IsInf(a) == a.d = 0 /\ a.n # 0
IsFinite(a) == a.d # 0

RNeg(a) == [n |-> -a.n, d |-> a.d]

RAdd(a, b) ==
    IF IsNaN(a) \/ IsNaN(b) THEN NaN
    ELSE IF IsInf(a) /\ IsInf(b) THEN (IF a.n = b.n THEN a ELSE NaN)
    ELSE IF IsInf(a) THEN a
    ELSE IF IsInf(b) THEN b
    ELSE LET g == GCD(a.d, b.d)
         IN Frac(a.n * (b.d \div g) + b.n * (a.d \div g), (a.d \div g) * b.d)

RSub(a, b) == RAdd(a, RNeg(b))

RMul(a, b) ==
    IF IsNaN(a) \/ IsNaN(b) THEN NaN
    ELSE IF IsInf(a) \/ IsInf(b)
         THEN (IF a.n = 0 \/ b.n = 0 THEN NaN ELSE Inf(Sign(a.n) * Sign(b.n)))
    ELSE LET g1 == GCD(Abs(a.n), b.d)
             g2 == GCD(Abs(b.n), a.d)
         IN [n |-> (a.n \div g1) * (b.n \div g2),
             d |-> (a.d \div g2) * (b.d \div g1)]

\* IEEE division: x/0 is an infinity, 0/0 is nan, nothing is raised
RDiv(a, b) ==
    IF IsNaN(a) \/ IsNaN(b) THEN NaN
    ELSE IF IsInf(b) THEN (IF IsInf(a) THEN NaN ELSE Zero)
    ELSE IF b.n = 0 THEN (IF a.n = 0 THEN NaN ELSE Inf(Sign(a.n)))
    ELSE IF IsInf(a) THEN Inf(Sign(a.n) * Sign(b.n))
    ELSE RMul(a, [n |-> Sign(b.n) * b.d, d |-> Abs(b.n)])

RInt(k) == [n |-> k, d |-> 1]

\* comparisons of finite numbers
RLt(a, b) == a.n * b.d < b.n * a.d
RLe(a, b) == a.n * b.d <= b.n * a.d
RGt(a, b) == RLt(b, a)

\* floor of a finite number
RFloor(a) == a.n \div a.d

RECURSIVE RSum(_)
RSum(s) == IF s = <<>> THEN Zero ELSE RAdd(Head(s), RSum(Tail(s)))

(***************************************************************************)
(* The transcendental functions, on a grid of 1/Quantum.                   *)
(***************************************************************************)
Quantum == 2^4

\* the nearest multiple of 1/Quantum
Quant(a) == Frac((2 * a.n * Quantum + a.d) \div (2 * a.d), Quantum)

\* np.pi
Pi == Quant(Frac(355, 113))

\* torch.exp: the quadratic Taylor polynomial, inverted for a negative
\* argument so that the result stays positive and monotone
Exp(x) ==
    LET y == [n |-> Abs(x.n), d |-> x.d]
        p == RAdd(One, RAdd(y, RMul(Frac(1, 2), RMul(y, y))))
        q == Quant(RDiv(One, p))
    IN IF x.n >= 0 THEN Quant(p)
       ELSE IF q.n = 0 THEN Frac(1, Quantum) ELSE q

\* sin(pi * z) for 0 <= z <= 1 (Bhaskara's rational approximation)
SinHalfTurn(z) ==
    LET w == RMul(z, RSub(One, z))
    IN RDiv(RMul(RInt(16), w), RSub(RInt(5), RMul(RInt(4), w)))

\* sin(pi * x), x finite, reduced to one period
SinPi(x) ==
    LET m == RSub(x, RInt(2 * RFloor(RDiv(x, RInt(2)))))
    IN IF RLe(m, One) THEN Quant(SinHalfTurn(m))
       ELSE RNeg(Quant(SinHalfTurn(RSub(m, One))))

\* torch.sin, torch.cos of an angle in radians
Sin(a) == SinPi(RDiv(a, Pi))
Cos(a) == SinPi(RAdd(RDiv(a, Pi), Frac(1, 2)))

(***************************************************************************)
(* Python values and call outcomes.                                        *)
(***************************************************************************)
PyStr(s) == [type |-> "str", val |-> s]
PyFunc(f) == [type |-> "function", val |-> f]
PyNone == [type |-> "NoneType", val |-> "None"]

\* the builtin callable()
callable(v) == v.type = "function"

\* a call that returned value; kernel_params is the caller's list after it
Ok(value, kernel_params) ==
    [status |-> "ok", exc |-> "none", value |-> value,
     kernel_params |-> kernel_params]

\* a call that raised exc: nothing is returned
Raise(exc, kernel_params) ==
    [status |-> "error", exc |-> exc, value |-> <<>>,
     kernel_params |-> kernel_params]

\* the shape (n_dim, n_dim) of a parameter matrix
NDimOf(m) == Len(m)

(***************************************************************************)
(* fadin.utils.utils: the helpers kernels.py imports.                      *)
(***************************************************************************)
\* TRUE when the list holds exactly number_params matrices (else it raises)
check_params(list_params, number_params) == Len(list_params) = number_params

\* values outside [lower, upper) are 0; the rest is divided by the masked
\* Riemann sum, so that delta * sum = 1
kernel_normalization(values, time_values, delta, lower, upper) ==
    LET n == Len(values)
        len == Len(time_values)
        inside == [k \in 1..len |->
                     RLe(lower, time_values[k]) /\ RLt(time_values[k], upper)]
        norm == [i \in 1..n |-> [j \in 1..n |->
                   RMul(RSum([k \in 1..len |->
                                IF inside[k] THEN values[i][j][k] ELSE Zero]),
                        delta)]]
        f(i, j, k) == IF inside[k] THEN RDiv(values[i][j][k], norm[i][j]) ELSE Zero
    IN [i \in 1..n |-> [j \in 1..n |-> [k \in 1..len |-> f(i, j, k)]]]

\* the derivative of function / (delta * sum(function)) by the quotient rule,
\* for one pair (i, j): function and grad_function_param have shape (L,)
kernel_deriv_norm(function, grad_function_param, delta) ==
    LET function_sum == RMul(RSum(function), delta)
        grad_function_param_sum == RMul(RSum(grad_function_param), delta)
    IN [k \in 1..Len(function) |->
          RDiv(RSub(RMul(grad_function_param[k], function_sum),
                    RMul(function[k], grad_function_param_sum)),
               RMul(function_sum, function_sum))]

\* the sum over the parameter matrices of their entry (i, j)
RECURSIVE ParamSum(_, _, _)
ParamSum(kernel_params, i, j) ==
    IF kernel_params = <<>> THEN Zero
    ELSE RAdd(Head(kernel_params)[i][j], ParamSum(Tail(kernel_params), i, j))

\* the caller's custom kernel, a ramp 1 + (sum of the parameters) * t, and its
\* derivative t with respect to each parameter
custom_kernel(kernel_params, n_dim, time_values) ==
    LET f(i, j, k) == RAdd(One, RMul(ParamSum(kernel_params, i, j), time_values[k]))
    IN [i \in 1..n_dim |-> [j \in 1..n_dim |-> [k \in 1..Len(time_values) |-> f(i, j, k)]]]

custom_grad_kernel(kernel_params, n_dim, time_values) ==
    LET f(i, j, k) == time_values[k]
    IN [p \in 1..Len(kernel_params) |-> [i \in 1..n_dim |-> [j \in 1..n_dim |-> [k \in 1..Len(time_values) |-> f(i, j, k)]]]]

\* the custom kernel evaluated on the grid, then normalized
kernel_normalized(kernel, kernel_params, n_dim, time_values, delta, lower, upper) ==
    Ok(kernel_normalization(custom_kernel(kernel_params, n_dim, time_values),
                            time_values, delta, lower, upper),
       kernel_params)

\* the custom gradient of each parameter through kernel_deriv_norm
grad_kernel_callable(kernel, grad_kernel, kernel_params, time_values, L, lower, upper, n_dim) ==
    LET fn == custom_kernel(kernel_params, n_dim, time_values)
        gr == custom_grad_kernel(kernel_params, n_dim, time_values)
    IN Ok([p \in 1..Len(kernel_params) |->
             [i \in 1..n_dim |-> [j \in 1..n_dim |->
                kernel_deriv_norm(fn[i][j], gr[p][i][j], Frac(1, L))]]],
          kernel_params)

(***************************************************************************)
(* Raised cosine.                                                          *)
(***************************************************************************)
\* mask_kernel, mask_grad: the grid positions outside [u, u + 2 sigma]
mask_raised_cosine(u_ij, sigma_ij, t) ==
    RLt(t, u_ij) \/ RGt(t, RAdd(u_ij, RMul(RInt(2), sigma_ij)))

raised_cosine(kernel_params, time_values) ==
    IF ~check_params(kernel_params, 2) THEN Raise("Exception", kernel_params)
    ELSE
    LET u == kernel_params[1]
        sigma == kernel_params[2]
        n_dim == NDimOf(u)
        f(i, j, k) ==
            IF mask_raised_cosine(u[i][j], sigma[i][j], time_values[k]) THEN Zero
            ELSE RAdd(One, Cos(RSub(RMul(RDiv(RSub(time_values[k], u[i][j]),
                                               sigma[i][j]), Pi), Pi)))
    IN Ok([i \in 1..n_dim |-> [j \in 1..n_dim |-> [k \in 1..Len(time_values) |-> f(i, j, k)]]], kernel_params)

\* a mask that forgets the right end of the support
mask_grad_left_only(u_ij, sigma_ij, t) == RLt(t, u_ij)

\* mask_grad: the same positions, written out again in grad_raised_cosine
mask_grad(u_ij, sigma_ij, t) ==
    RLt(t, u_ij) \/ RGt(t, RAdd(u_ij, RMul(RInt(2), sigma_ij)))

grad_raised_cosine(kernel_params, time_values, L) ==
    \* u, sigma = kernel_params
    IF Len(kernel_params) # 2 THEN Raise("ValueError", kernel_params)
    ELSE
    LET u == kernel_params[1]
        sigma == kernel_params[2]
        n_dim == NDimOf(u)
        temp_1(i, j, k) == RDiv(RSub(time_values[k], u[i][j]), sigma[i][j])
        temp_2(i, j, k) == RSub(RMul(temp_1(i, j, k), Pi), Pi)
        gu(i, j, k) ==
            IF mask_grad(u[i][j], sigma[i][j], time_values[k]) THEN Zero
            ELSE RDiv(RMul(Pi, Sin(temp_2(i, j, k))), sigma[i][j])
        gs(i, j, k) ==
            IF mask_grad(u[i][j], sigma[i][j], time_values[k]) THEN Zero
            ELSE RMul(RDiv(RMul(Pi, temp_1(i, j, k)),
                           RMul(sigma[i][j], sigma[i][j])),
                      Sin(temp_2(i, j, k)))
    IN Ok(<<[i \in 1..n_dim |-> [j \in 1..n_dim |-> [k \in 1..L |-> gu(i, j, k)]]], [i \in 1..n_dim |-> [j \in 1..n_dim |-> [k \in 1..L |-> gs(i, j, k)]]]>>, kernel_params)

(***************************************************************************)
(* Truncated gaussian.                                                     *)
(***************************************************************************)
\* exp(-(t - m)^2 / (2 sigma^2))
gaussian(t, m_ij, sigma_ij) ==
    Exp(RNeg(RDiv(RMul(RSub(t, m_ij), RSub(t, m_ij)),
                  RMul(RInt(2), RMul(sigma_ij, sigma_ij)))))

truncated_gaussian(kernel_params, time_values, delta, lower, upper) ==
    IF ~check_params(kernel_params, 2) THEN Raise("Exception", kernel_params)
    ELSE
    LET m == kernel_params[1]
        sigma == kernel_params[2]
        n_dim == NDimOf(sigma)
        f(i, j, k) == gaussian(time_values[k], m[i][j], sigma[i][j])
        values_ == [i \in 1..n_dim |-> [j \in 1..n_dim |-> [k \in 1..Len(time_values) |-> f(i, j, k)]]]
    IN Ok(kernel_normalization(values_, time_values, delta, lower, upper),
          kernel_params)

\* delta = 1 / L in grad_truncated_gaussian and grad_exponential
grad_delta(L) == Frac(1, L)

\* a gradient that writes its zeros into the caller's first matrix
params_written_in_place(kernel_params) ==
    [kernel_params EXCEPT ![1] =
        [i \in 1..Len(@) |-> [j \in 1..Len(@) |-> IF j = 1 THEN Zero ELSE @[i][j]]]]

\* the caller's list after grad_exponential: function and grad_function are
\* products, hence new tensors, and the writes [:, :, 0] = 0 go to them
params_after_grad(kernel_params) == kernel_params

grad_truncated_gaussian(kernel_params, time_values, L) ==
    \* m, sigma = kernel_params
    IF Len(kernel_params) # 2 THEN Raise("ValueError", kernel_params)
    ELSE
    LET delta == grad_delta(L)
        m == kernel_params[1]
        sigma == kernel_params[2]
        n_dim == NDimOf(sigma)
        len == Len(time_values)
        function == [i \in 1..n_dim |-> [j \in 1..n_dim |-> [k \in 1..len |->
               gaussian(time_values[k], m[i][j], sigma[i][j])]]]
        grad_function_mu == [i \in 1..n_dim |-> [j \in 1..n_dim |-> [k \in 1..len |->
               RMul(RDiv(RSub(time_values[k], m[i][j]),
                         RMul(sigma[i][j], sigma[i][j])),
                    function[i][j][k])]]]
        grad_function_s == [i \in 1..n_dim |-> [j \in 1..n_dim |-> [k \in 1..len |->
               RMul(RDiv(RMul(RSub(time_values[k], m[i][j]),
                              RSub(time_values[k], m[i][j])),
                         RMul(sigma[i][j], RMul(sigma[i][j], sigma[i][j]))),
                    function[i][j][k])]]]
        grad_m == [i \in 1..n_dim |-> [j \in 1..n_dim |->
                     kernel_deriv_norm(function[i][j], grad_function_mu[i][j], delta)]]
        grad_sigma == [i \in 1..n_dim |-> [j \in 1..n_dim |->
                     kernel_deriv_norm(function[i][j], grad_function_s[i][j], delta)]]
    IN Ok(<<grad_m, grad_sigma>>, kernel_params)

(***************************************************************************)
(* Exponential.                                                            *)
(***************************************************************************)
exponential(kernel_params, time_values, delta, upper) ==
    IF ~check_params(kernel_params, 1) THEN Raise("Exception", kernel_params)
    ELSE
    LET decay == kernel_params[1]
        n_dim == NDimOf(decay)
        f(i, j, k) == RMul(decay[i][j], Exp(RNeg(RMul(decay[i][j], time_values[k]))))
        values_ == [i \in 1..n_dim |-> [j \in 1..n_dim |-> [k \in 1..Len(time_values) |-> f(i, j, k)]]]
    IN Ok(kernel_normalization(values_, time_values, delta, Zero, upper),
          kernel_params)

grad_exponential(kernel_params, time_values, L) ==
    \* decay = kernel_params[0]
    IF Len(kernel_params) = 0 THEN Raise("IndexError", kernel_params)
    ELSE
    LET delta == grad_delta(L)
        decay == kernel_params[1]
        n_dim == NDimOf(decay)
        len == Len(time_values)
        \* function and grad_function are new tensors; their first sample
        \* is then set to 0 in place
        function == [i \in 1..n_dim |-> [j \in 1..n_dim |-> [k \in 1..len |->
               IF k = 1 THEN Zero
               ELSE RMul(decay[i][j], Exp(RNeg(RMul(decay[i][j], time_values[k]))))]]]
        grad_function == [i \in 1..n_dim |-> [j \in 1..n_dim |-> [k \in 1..len |->
               IF k = 1 THEN Zero
               ELSE RMul(RSub(One, RMul(decay[i][j], time_values[k])),
                         Exp(RNeg(RMul(decay[i][j], time_values[k]))))]]]
        function_sum == [i \in 1..n_dim |-> [j \in 1..n_dim |->
                           RMul(RSum(function[i][j]), delta)]]
        grad_function_sum == [i \in 1..n_dim |-> [j \in 1..n_dim |->
                                RMul(RSum(grad_function[i][j]), delta)]]
        g(i, j, k) ==
            RDiv(RSub(RMul(grad_function[i][j][k], function_sum[i][j]),
                      RMul(function[i][j][k], grad_function_sum[i][j])),
                 RMul(function_sum[i][j], function_sum[i][j]))
    IN Ok(<<[i \in 1..n_dim |-> [j \in 1..n_dim |-> [k \in 1..len |-> g(i, j, k)]]]>>, params_after_grad(kernel_params))

(***************************************************************************)
(* The facade DiscreteKernelFiniteSupport.                                 *)
(***************************************************************************)
\* __init__
DiscreteKernelFiniteSupport(delta, n_dim, kernel, lower, upper, grad_kernel) ==
    [L |-> RFloor(RDiv(One, delta)), delta |-> delta, lower |-> lower,
     upper |-> upper, n_dim |-> n_dim, kernel |-> kernel,
     grad_kernel |-> grad_kernel]

NotImplemented(kernel_params) == Raise("NotImplementedError", kernel_params)

\* a dispatch that asks for the gradient callable as well
kernel_eval_needs_grad(self_, kernel_params, time_values) ==
    IF self_.kernel = PyStr("raised_cosine")
    THEN raised_cosine(kernel_params, time_values)
    ELSE IF self_.kernel = PyStr("truncated_gaussian")
    THEN truncated_gaussian(kernel_params, time_values, self_.delta,
                            self_.lower, self_.upper)
    ELSE IF self_.kernel = PyStr("exponential")
    THEN exponential(kernel_params, time_values, self_.delta, self_.upper)
    ELSE IF callable(self_.kernel) /\ callable(self_.grad_kernel)
    THEN kernel_normalized(self_.kernel, kernel_params, self_.n_dim, time_values,
                           self_.delta, self_.lower, self_.upper)
    ELSE NotImplemented(kernel_params)

kernel_eval(self_, kernel_params, time_values) ==
    IF self_.kernel = PyStr("raised_cosine")
    THEN raised_cosine(kernel_params, time_values)
    ELSE IF self_.kernel = PyStr("truncated_gaussian")
    THEN truncated_gaussian(kernel_params, time_values, self_.delta,
                            self_.lower, self_.upper)
    ELSE IF self_.kernel = PyStr("exponential")
    THEN exponential(kernel_params, time_values, self_.delta, self_.upper)
    ELSE IF callable(self_.kernel)
    THEN kernel_normalized(self_.kernel, kernel_params, self_.n_dim, time_values,
                           self_.delta, self_.lower, self_.upper)
    ELSE NotImplemented(kernel_params)

\* a dispatch that looks at the gradient callable only
grad_eval_grad_only(self_, kernel_params, time_values) ==
    IF self_.kernel = PyStr("raised_cosine")
    THEN grad_raised_cosine(kernel_params, time_values, self_.L)
    ELSE IF self_.kernel = PyStr("truncated_gaussian")
    THEN grad_truncated_gaussian(kernel_params, time_values, self_.L)
    ELSE IF self_.kernel = PyStr("exponential")
    THEN grad_exponential(kernel_params, time_values, self_.L)
    ELSE IF callable(self_.grad_kernel)
    THEN grad_kernel_callable(self_.kernel, self_.grad_kernel, kernel_params,
                              time_values, self_.L, self_.lower, self_.upper,
                              self_.n_dim)
    ELSE NotImplemented(kernel_params)

grad_eval(self_, kernel_params, time_values) ==
    IF self_.kernel = PyStr("raised_cosine")
    THEN grad_raised_cosine(kernel_params, time_values, self_.L)
    ELSE IF self_.kernel = PyStr("truncated_gaussian")
    THEN grad_truncated_gaussian(kernel_params, time_values, self_.L)
    ELSE IF self_.kernel = PyStr("exponential")
    THEN grad_exponential(kernel_params, time_values, self_.L)
    ELSE IF callable(self_.kernel) /\ callable(self_.grad_kernel)
    THEN grad_kernel_callable(self_.kernel, self_.grad_kernel, kernel_params,
                              time_values, self_.L, self_.lower, self_.upper,
                              self_.n_dim)
    ELSE NotImplemented(kernel_params)

\* torch.conv_transpose1d of an input of shape (1, n) with a weight of shape
\* (1, C, K): C channels of length n + K - 1, each input sample spreading the
\* kernel over the K positions that start at its own
conv_transpose1d(input, weight) ==
    [c \in 1..Len(weight) |->
       [t \in 1..(Len(input) + Len(weight[c]) - 1) |->
          RSum([s \in 1..Len(input) |->
                  IF t - s + 1 >= 1 /\ t - s + 1 <= Len(weight[c])
                  THEN RMul(input[s], weight[c][t - s + 1])
                  ELSE Zero])]]

\* the slice seq[:stop] of Python
SliceTo(seq, stop) ==
    LET e == IF stop < 0 THEN Len(seq) + stop ELSE stop
    IN SubSeq(seq, 1, IF e < 0 THEN 0 ELSE IF e > Len(seq) THEN Len(seq) ELSE e)

\* the weight with source and target dimension exchanged
weight_transposed(kernel_values_alp, i) ==
    [c \in 1..Len(kernel_values_alp) |-> kernel_values_alp[i][c]]

\* kernel_values_alp[:, i]
weight_of(kernel_values_alp, i) ==
    [c \in 1..Len(kernel_values_alp) |-> kernel_values_alp[c][i]]

\* the lines of intensity_eval that follow the call of kernel_eval, which
\* returned or raised ke
intensity_sum(ke, n_dim, L, baseline, alpha, events_grid) ==
    IF ke.status = "error" THEN ke
       ELSE
       LET kernel_values == ke.value
           n_grid == Len(events_grid[1])
           kernel_values_alp ==
               [i \in 1..n_dim |-> [j \in 1..n_dim |->
                  [k \in 1..Len(kernel_values[i][j]) |->
                     RMul(kernel_values[i][j][k], alpha[i][j])]]]
           \* conv_transpose1d(...)[:, :-self.L + 1]
           trimmed ==
               [i \in 1..n_dim |->
                  LET full == conv_transpose1d(events_grid[i],
                                               weight_of(kernel_values_alp, i))
                  IN [c \in 1..n_dim |-> SliceTo(full[c], -L + 1)]]
           \* intensity_temp[i, :, :] = ...: the right side has n_grid
           \* columns, or one column that is broadcast
           fits(i) == \A c \in 1..n_dim : Len(trimmed[i][c]) \in {n_grid, 1}
           intensity_temp ==
               [i \in 1..n_dim |-> [c \in 1..n_dim |-> [t \in 1..n_grid |->
                  IF Len(trimmed[i][c]) = n_grid THEN trimmed[i][c][t]
                  ELSE trimmed[i][c][1]]]]
           intensity_values ==
               [c \in 1..n_dim |-> [t \in 1..n_grid |->
                  RAdd(RSum([i \in 1..n_dim |-> intensity_temp[i][c][t]]),
                       baseline[c])]]
       IN IF \A i \in 1..n_dim : fits(i)
          THEN Ok(intensity_values, ke.kernel_params)
          ELSE Raise("RuntimeError", ke.kernel_params)

intensity_eval(self_, baseline, alpha, kernel_params, events_grid, time_values) ==
    intensity_sum(kernel_eval(self_, kernel_params, time_values),
                  self_.n_dim, self_.L, baseline, alpha, events_grid)

(***************************************************************************)
(* The callers' inputs.                                                    *)
(***************************************************************************)
\* 0 < delta <= 1
Deltas == {Frac(a, b) : a \in 1..MaxDen, b \in 1..MaxDen} \ {r \in {Frac(a, b) : a \in 1..MaxDen, b \in 1..MaxDen} : RGt(r, One)}

\* 0 <= lower < upper <= 1
Supports == {<<Zero, One>>, <<Frac(1, 3), Frac(2, 3)>>}

Dims == {1, 2}

\* kernel and grad_kernel
Selections ==
    {<<PyStr("raised_cosine"), PyNone>>, <<PyStr("truncated_gaussian"), PyNone>>,
     <<PyStr("exponential"), PyNone>>,
     <<PyFunc("custom_kernel"), PyNone>>,
     <<PyFunc("custom_kernel"), PyStr("bogus")>>,
     <<PyFunc("custom_kernel"), PyFunc("custom_grad_kernel")>>,
     <<PyStr("bogus"), PyNone>>,
     <<PyStr("bogus"), PyFunc("custom_grad_kernel")>>}

\* a matrix of shape (n, n): a above the diagonal, b on and below it
Matrix(n, a, b) == [i \in 1..n |-> [j \in 1..n |-> IF i < j THEN a ELSE b]]

ParamVals == {Frac(1, 5), Frac(1, 2)}
ParamMatrices(n) ==
    {Matrix(n, ab[1], ab[2]) : ab \in {v \in ParamVals \X ParamVals : v[1] # v[2]}}

\* lists of 0 to 3 parameter matrices
ParamLists(n) ==
    {SubSeq(<<p, q>>, 1, k) : p \in ParamMatrices(n), q \in ParamMatrices(n),
                              k \in 0..2}
    \cup {<<p, p, p>> : p \in ParamMatrices(n)}

\* the grid of L points of [0, 1)
TimeGrid(L) == [k \in 1..L |-> Frac(k - 1, L)]

\* no excitation at all, or an excitation that differs across the pairs
Alphas(n) == {Matrix(n, Zero, Zero), Matrix(n, Frac(1, 2), One)}

\* one baseline per dimension, each its own
Baselines(n) == {[i \in 1..n |-> RInt(i)]}

\* event grids of length g: no event, one event, an event everywhere
EventGrids(n, g) ==
    {[i \in 1..n |-> [t \in 1..g |-> RInt(c)]] : c \in 0..1}
    \cup {[i \in 1..n |-> [t \in 1..g |-> IF i = d /\ t = p THEN One ELSE Zero]] :
            d \in 1..n, p \in 1..g}

(***************************************************************************)
(* The state: one facade and the call in progress.                         *)
(***************************************************************************)
VARIABLES
    self,    \* the facade's attributes
    op,      \* the method last called, "idle" between calls
    args,    \* the arrays as the caller passed them
    after,   \* the same arrays when the call has ended
    ret      \* what the call returned or raised

vars == <<self, op, args, after, ret>>

NoArrays ==
    [kernel_params |-> <<>>, time_values |-> <<>>, alpha |-> <<>>,
     baseline |-> <<>>, events_grid |-> <<>>]

NoReturn == [status |-> "none", exc |-> "none", value |-> <<>>]

\* the call of method with the arrays passed has ended with r
Ended(method, passed, r) ==
    /\ op' = method
    /\ args' = passed
    /\ after' = [passed EXCEPT !.kernel_params = r.kernel_params]
    /\ ret' = [status |-> r.status, exc |-> r.exc, value |-> r.value]
    /\ UNCHANGED self

Init ==
    /\ \E delta \in Deltas, n_dim \in Dims, sel \in Selections, sup \in Supports :
         self = DiscreteKernelFiniteSupport(delta, n_dim, sel[1], sup[1], sup[2],
                                            sel[2])
    /\ op = "idle"
    /\ args = NoArrays
    /\ after = NoArrays
    /\ ret = NoReturn

Arrays(kernel_params, time_values, alpha, baseline, events_grid) ==
    [kernel_params |-> kernel_params, time_values |-> time_values,
     alpha |-> alpha, baseline |-> baseline, events_grid |-> events_grid]

Call_kernel_eval ==
    /\ op = "idle"
    /\ \E kernel_params \in ParamLists(self.n_dim) :
         Ended("kernel_eval",
               Arrays(kernel_params, TimeGrid(self.L), <<>>, <<>>, <<>>),
               kernel_eval(self, kernel_params, TimeGrid(self.L)))

Call_grad_eval ==
    /\ op = "idle"
    /\ \E kernel_params \in ParamLists(self.n_dim) :
         Ended("grad_eval",
               Arrays(kernel_params, TimeGrid(self.L), <<>>, <<>>, <<>>),
               grad_eval(self, kernel_params, TimeGrid(self.L)))

Call_intensity_eval ==
    /\ op = "idle"
    /\ \E kernel_params \in ParamLists(self.n_dim), alpha \in Alphas(self.n_dim),
          baseline \in Baselines(self.n_dim), n_grid \in 1..MaxGrid :
         \E events_grid \in EventGrids(self.n_dim, n_grid) :
            Ended("intensity_eval",
                  Arrays(kernel_params, TimeGrid(self.L), alpha, baseline,
                         events_grid),
                  intensity_eval(self, baseline, alpha, kernel_params,
                                 events_grid, TimeGrid(self.L)))

\* the caller drops what the call returned: nothing of it is kept
Release ==
    /\ op # "idle"
    /\ op' = "idle"
    /\ args' = NoArrays
    /\ after' = NoArrays
    /\ ret' = NoReturn
    /\ UNCHANGED self

Next == Call_kernel_eval \/ Call_grad_eval \/ Call_intensity_eval \/ Release

Spec == Init /\ [][Next]_vars

(***************************************************************************)
(* The claims.                                                             *)
(***************************************************************************)
Min(a, b) == IF a < b THEN a ELSE b

BuiltIn == {PyStr("raised_cosine"), PyStr("truncated_gaussian"), PyStr("exponential")}

\* the number of parameter matrices of a built-in family
Arity(kernel) == IF kernel = PyStr("exponential") THEN 1 ELSE 2

NothingReturned(exc) == ret.status = "error" /\ ret.exc = exc /\ ret.value = <<>>

\* the time of grid position k lies outside [lower, upper)
OutOfSupport(k) ==
    RLt(args.time_values[k], self.lower) \/ RLe(self.upper, args.time_values[k])

\* the time of grid position k lies outside [u, u + 2 sigma] for the pair (i, j)
OutOfCosine(i, j, k) ==
    LET u == args.kernel_params[1][i][j]
        sigma == args.kernel_params[2][i][j]
        t == args.time_values[k]
    IN RLt(t, u) \/ RLt(RAdd(u, RAdd(sigma, sigma)), t)

Pairs == (1..self.n_dim) \X (1..self.n_dim)

\* C1: whenever the kernel itself can be evaluated, intensity_eval returns,
\* for each dimension, exactly n_grid samples, for every L (L = 1 included).
C1_IntensityLength ==
    (op = "intensity_eval"
     /\ kernel_eval(self, args.kernel_params, args.time_values).status = "ok")
    => /\ ret.status = "ok"
       /\ Len(ret.value) = self.n_dim
       /\ \A i \in 1..self.n_dim : Len(ret.value[i]) = Len(args.events_grid[1])

\* the sum the claim C2 gives for the intensity of dimension i at grid point t
\* (t counted from 1), with kv the kernel values
CausalSum(kv, i, t) ==
    RAdd(args.baseline[i],
         RSum([j \in 1..self.n_dim |->
                 RSum([k \in 1..Min(t, self.L) |->
                         RMul(RMul(args.alpha[i][j], kv[i][j][k]),
                              args.events_grid[j][t - k + 1])])]))

\* C2: an intensity that intensity_eval returns is, at every dimension i and
\* grid point t, baseline[i] plus the sum over the sources j and the lags
\* k = 0 .. min(t, L-1) of alpha[i,j] * kernel_values[i,j,k] * events[j][t-k]:
\* no event after t counts, and kernel_values[i,j] meets the events of j.
C2_IntensityCausal ==
    (op = "intensity_eval" /\ ret.status = "ok")
    => \A i \in 1..self.n_dim : \A t \in 1..Len(args.events_grid[1]) :
         ret.value[i][t] =
            CausalSum(kernel_eval(self, args.kernel_params, args.time_values).value,
                      i, t)

\* an earlier event of the other dimension has raised a later intensity
C2_Witness ==
    /\ op = "intensity_eval" /\ ret.status = "ok"
    /\ self.n_dim = 2 /\ self.L >= 2 /\ Len(args.events_grid[1]) >= 2
    /\ args.events_grid[2][1] # Zero /\ args.events_grid[1][1] = Zero
    /\ args.alpha[1][2] # args.alpha[2][1]
    /\ ret.value[1][2] # args.baseline[1]

\* C3: a built-in family called with a list of the wrong length, too long or
\* too short, raises and returns nothing, in kernel_eval and in grad_eval.
C3_ArityRejected ==
    (op \in {"kernel_eval", "grad_eval"} /\ self.kernel \in BuiltIn
     /\ Len(args.kernel_params) # Arity(self.kernel))
    => ret.status = "error" /\ ret.value = <<>>

\* C4: with a kernel that is neither a family name nor a callable, kernel_eval
\* and grad_eval raise NotImplementedError, whatever grad_kernel is.
C4_UnsupportedKernel ==
    (op \in {"kernel_eval", "grad_eval"} /\ self.kernel \notin BuiltIn
     /\ ~callable(self.kernel))
    => NothingReturned("NotImplementedError")

C4_Witness ==
    /\ op = "grad_eval" /\ self.kernel = PyStr("bogus")
    /\ callable(self.grad_kernel)
    /\ NothingReturned("NotImplementedError")

\* C5: with a callable kernel and a grad_kernel that is not callable,
\* grad_eval raises NotImplementedError and kernel_eval returns the
\* normalized values of the custom kernel.
C5_MissingGradient ==
    (callable(self.kernel) /\ ~callable(self.grad_kernel))
    => /\ op = "grad_eval" => NothingReturned("NotImplementedError")
       /\ op = "kernel_eval" =>
            /\ ret.status = "ok"
            /\ ret.value =
                 kernel_normalization(
                     custom_kernel(args.kernel_params, self.n_dim, args.time_values),
                     args.time_values, self.delta, self.lower, self.upper)

C5_Witness ==
    /\ op = "kernel_eval" /\ callable(self.kernel)
    /\ self.grad_kernel = PyStr("bogus")
    /\ ret.status = "ok" /\ Len(args.kernel_params) = 1
    /\ \E k \in 1..self.L : ret.value[1][1][k] # Zero

\* C6: for truncated_gaussian and exponential every gradient that grad_eval
\* returns is 0 at every grid position whose time lies outside [lower, upper).
C6_GradientMasked ==
    (op = "grad_eval" /\ ret.status = "ok"
     /\ self.kernel \in {PyStr("truncated_gaussian"), PyStr("exponential")})
    => \A p \in 1..Len(ret.value) : \A ij \in Pairs : \A k \in 1..self.L :
         OutOfSupport(k) => ret.value[p][ij[1]][ij[2]][k] = Zero

\* C7: for the exponential family the first sample (time-index 0) of every
\* pair is exactly 0 in what kernel_eval returns and in what grad_eval returns.
C7_ExponentialFirstSample ==
    (self.kernel = PyStr("exponential") /\ ret.status = "ok")
    => /\ op = "kernel_eval" => \A ij \in Pairs : ret.value[ij[1]][ij[2]][1] = Zero
       /\ op = "grad_eval" => \A ij \in Pairs : ret.value[1][ij[1]][ij[2]][1] = Zero

\* C8: for raised_cosine the value and both gradients are exactly 0 at every
\* grid time t < u[i,j] or t > u[i,j] + 2 sigma[i,j].
C8_CosineSupport ==
    (self.kernel = PyStr("raised_cosine") /\ ret.status = "ok")
    => \A ij \in Pairs : \A k \in 1..self.L :
         OutOfCosine(ij[1], ij[2], k) =>
            /\ op = "kernel_eval" => ret.value[ij[1]][ij[2]][k] = Zero
            /\ op = "grad_eval" => /\ ret.value[1][ij[1]][ij[2]][k] = Zero
                                   /\ ret.value[2][ij[1]][ij[2]][k] = Zero

\* gradients returned with a grid time on either side of a pair's support
C8_Witness ==
    /\ op = "grad_eval" /\ self.kernel = PyStr("raised_cosine")
    /\ ret.status = "ok"
    /\ \E ij \in Pairs : \E k1 \in 1..self.L, k2 \in 1..self.L :
         /\ RLt(args.time_values[k1], args.kernel_params[1][ij[1]][ij[2]])
         /\ OutOfCosine(ij[1], ij[2], k2)
         /\ ~RLt(args.time_values[k2], args.kernel_params[1][ij[1]][ij[2]])
         /\ ret.value[1][ij[1]][ij[2]][k1] = Zero
         /\ ret.value[1][ij[1]][ij[2]][k2] = Zero

C10_SameStep ==
    (op = "grad_eval" /\ ret.status = "ok"
     /\ self.kernel \in {PyStr("truncated_gaussian"), PyStr("exponential")})
    => grad_delta(self.L) = self.delta

====
